---- MODULE Spec2Model ----
(***************************************************************************)
(* The daemon-configuration action of the installer                        *)
(* (src/action/common/configure_enterprise_edition_init_service.rs):       *)
(* ConfigureEnterpriseEditionInitService, a composite action that writes   *)
(* the launchd descriptor and owns a StatefulAction<ConfigureInitService>. *)
(* The host (file system, launchd registration) and the action tree are    *)
(* the state; plan, try_execute and try_revert are the operations, with    *)
(* execute broken at its fallible steps.                                   *)
(***************************************************************************)
EXTENDS Integers, Sequences, FiniteSets, TLC

VARIABLES
    fs,          \* host file system: path -> None | Some(sequence of tokens)
    loaded,      \* host launchd: is system/systems.determinate.nix-daemon bootstrapped
    stateful,    \* StatefulAction<ConfigureEnterpriseEditionInitService>
    plan_input,  \* the (init, start_daemon) arguments the current action was planned with
    pc,          \* position inside the running call ("idle" between calls)
    op,          \* the call that is running or ran last, the files it found, and
                 \* (after a plan that followed a plan) what the plan before it gave
    buf,         \* execute's local `buf` (the serialized descriptor)
    trace,       \* external steps of the running (or last) call, in order
    step_failed, \* whether a step of the running (or last) call failed
    result,      \* what the last finished call returned
    calls,       \* the finished try_execute / try_revert calls on the current action
    description  \* the preview last returned for the current action since its last call

vars == <<fs, loaded, stateful, plan_input, pc, op, buf, trace, step_failed, result, calls,
          description>>

----------------------------------------------------------------------------
(* Bounds of the model *)

\* number of try_execute / try_revert calls made on one planned action
MaxCalls == 3

\* most tokens a write_all that fails has put into the file before failing
MaxPartial == 2

----------------------------------------------------------------------------
(* Constants of the source file *)

DARWIN_ENTERPRISE_EDITION_DAEMON_DEST == "/Library/LaunchDaemons/systems.determinate.nix-daemon.plist"
DARWIN_LAUNCHD_DOMAIN == "system"
SERVICE_DEST == "/etc/systemd/system/nix-daemon.service"
DETERMINATE_NIX_EE_SERVICE_SRC == "/nix/determinate/nix-daemon.service"
DARWIN_ENTERPRISE_EDITION_SERVICE_NAME == "systems.determinate.nix-daemon"

InitSystem == {"Launchd", "Systemd", "None"}

\* Option<T>
None == <<>>
Some(x) == <<x>>

\* Result<(), ActionError>
Ok == [ok |-> TRUE, err |-> <<>>]
Err(e) == [ok |-> FALSE, err |-> e]

action_tag == "configure_enterprise_edition_init_service"

\* Self::error: an ActionError carrying this action's tag and the kind
error(kind) == <<action_tag>> \o kind

----------------------------------------------------------------------------
(* plan *)

service_src(init) ==
    CASE init = "Launchd" -> None
      [] init = "Systemd" -> Some(DETERMINATE_NIX_EE_SERVICE_SRC)
      [] init = "None" -> None

service_dest(init) ==
    CASE init = "Launchd" -> Some(DARWIN_ENTERPRISE_EDITION_DAEMON_DEST)
      [] init = "Systemd" -> Some(SERVICE_DEST)
      [] init = "None" -> None

service_name(init) ==
    CASE init = "Launchd" -> Some(DARWIN_ENTERPRISE_EDITION_SERVICE_NAME)
      [] OTHER -> None

\* StatefulAction::from(action): a fresh wrapper, not completed
StatefulAction(a) == [action |-> a, completed |-> FALSE]

\* ConfigureInitService::plan
ConfigureInitService_plan(init, start_daemon, src, dest, name) ==
    StatefulAction([init |-> init, start_daemon |-> start_daemon,
                    service_src |-> src, service_dest |-> dest, service_name |-> name])

\* the init system handed to the child
child_init(init) == "Launchd"

plan(init, start_daemon) ==
    StatefulAction([start_daemon |-> start_daemon,
                    configure_init_service |->
                        ConfigureInitService_plan(child_init(init), start_daemon,
                            service_src(init), service_dest(init), service_name(init))])

----------------------------------------------------------------------------
(* The generated descriptor and its serialization *)

\* generate_plist as it would be with the stock daemon's label left in
generate_plist_stock_label ==
    [keep_alive |-> TRUE,
     run_at_load |-> TRUE,
     label |-> "org.nixos.nix-daemon",
     program |-> "/usr/local/bin/determinate-nix-ee",
     standard_error_path |-> "/var/log/determinate-nix-daemon.log",
     standard_out_path |-> "/var/log/determinate-nix-daemon.log",
     soft_resource_limits |-> [number_of_files |-> 1048576]]

generate_plist ==
    [keep_alive |-> TRUE,
     run_at_load |-> TRUE,
     label |-> "systems.determinate.nix-daemon",
     program |-> "/usr/local/bin/determinate-nix-ee",
     standard_error_path |-> "/var/log/determinate-nix-daemon.log",
     standard_out_path |-> "/var/log/determinate-nix-daemon.log",
     soft_resource_limits |-> [number_of_files |-> 1048576]]

xml_bool(b) == IF b THEN "true" ELSE "false"

\* plist::to_writer_xml over the #[serde(rename_all = "PascalCase")] structs:
\* the keys in field order, each followed by its value
to_writer_xml(p) ==
    << "Label", p.label,
       "Program", p.program,
       "KeepAlive", xml_bool(p.keep_alive),
       "RunAtLoad", xml_bool(p.run_at_load),
       "StandardErrorPath", p.standard_error_path,
       "StandardOutPath", p.standard_out_path,
       "SoftResourceLimits", "NumberOfFiles", ToString(p.soft_resource_limits.number_of_files) >>

----------------------------------------------------------------------------
(* The file system *)

Paths == {DARWIN_ENTERPRISE_EDITION_DAEMON_DEST, SERVICE_DEST}

\* OpenOptions as they would be with .append(true) added
OpenOptions_append ==
    [create |-> TRUE, write |-> TRUE, read |-> TRUE,
     truncate |-> FALSE, append |-> TRUE]

\* the options execute builds: create, write, read; nothing else is set
OpenOptions ==
    [create |-> TRUE, write |-> TRUE, read |-> TRUE,
     truncate |-> FALSE, append |-> FALSE]

\* the file after a successful open with these options
open(options, file) ==
    IF file = None THEN Some(<<>>)
    ELSE IF options.truncate THEN Some(<<>>)
    ELSE file

\* the file after `n` tokens of `bytes` went through the handle `open` returned
write_all(options, file, bytes, n) ==
    LET old == file[1]
        w == SubSeq(bytes, 1, n)
    IN  IF options.append THEN Some(old \o w)
        ELSE Some(w \o SubSeq(old, n + 1, Len(old)))

\* what the destination may hold before the installer runs
StaleShort == <<"stale">>
StaleLong == [i \in 1..(Len(to_writer_xml(generate_plist)) + 2) |-> "stale"]
InitialFiles == {None, Some(StaleShort), Some(StaleLong)}

\* how many tokens a failed write_all may have written
PartialWrites(bytes) ==
    0..(IF Len(bytes) - 1 < MaxPartial THEN Len(bytes) - 1 ELSE MaxPartial)

----------------------------------------------------------------------------
(* The stateful wrapper and the child action *)

\* try_execute / try_revert skip the wrapped action on this condition
already_completed(s) == s.completed
already_uncompleted(s) == ~s.completed

set_completed(s) == [s EXCEPT !.completed = TRUE]
set_uncompleted(s) == [s EXCEPT !.completed = FALSE]

\* ConfigureInitService::execute: the load/start step, only with the start flag
child_commands(child) ==
    IF child.action.start_daemon
    THEN << <<"launchctl", "bootstrap">> \o child.action.service_dest >>
    ELSE <<>>
child_outcomes(child) ==
    IF child.action.start_daemon THEN {"ok", "failed"} ELSE {"ok"}
child_error == <<"configure_init_service", "Command", "launchctl bootstrap">>

\* outcomes of execute_command: exit zero, spawn failure, non-zero exit
CommandOutcomes == {"ok", "spawn", "nonzero"}

----------------------------------------------------------------------------
(* Initial states: a host in some prior condition and a freshly planned action *)

Init ==
    \E init \in InitSystem, start_daemon \in BOOLEAN, f \in InitialFiles, l \in BOOLEAN :
        /\ fs = [p \in Paths |-> IF p = DARWIN_ENTERPRISE_EDITION_DAEMON_DEST THEN f ELSE None]
        /\ loaded = l
        /\ stateful = plan(init, start_daemon)
        /\ plan_input = [init |-> init, start_daemon |-> start_daemon]
        /\ pc = "idle"
        /\ op = [name |-> "plan", before |-> fs, prev |-> None]
        /\ buf = <<>>
        /\ trace = <<>>
        /\ step_failed = FALSE
        /\ result = Ok
        /\ calls = <<>>
        /\ description = None

----------------------------------------------------------------------------
(* Bookkeeping shared by the operations *)

\* a call starts: remember which one, and the files it found
Enter(name) ==
    /\ op' = [name |-> name, before |-> fs, prev |-> None]
    /\ trace' = <<>>
    /\ step_failed' = FALSE
    /\ buf' = <<>>
    /\ description' = None

\* a call returns r to its caller
Return(r) ==
    /\ result' = r
    /\ pc' = "idle"
    /\ calls' = Append(calls, [op |-> op'.name, ok |-> r.ok, trace |-> trace',
                               before |-> op'.before, after |-> fs',
                               action |-> stateful'])

\* a step of execute or revert fails with `kind`: `?` returns the error at once
Fail(kind) ==
    /\ step_failed' = TRUE
    /\ UNCHANGED <<stateful, op, buf>>
    /\ Return(Err(error(kind)))

----------------------------------------------------------------------------
(* plan: a new action replaces the one no call was made on yet *)

\* the error of a child plan that fails
child_plan_error == <<"configure_init_service", "plan">>

\* Plan as it would be if planning created the destination it resolved
Plan_touch ==
    /\ pc = "idle"
    /\ calls = <<>>
    /\ \E init \in InitSystem, start_daemon \in BOOLEAN :
        /\ stateful' = plan(init, start_daemon)
        /\ plan_input' = [init |-> init, start_daemon |-> start_daemon]
        /\ fs' = IF service_dest(init) = None THEN fs
                 ELSE [fs EXCEPT ![service_dest(init)[1]] = open(OpenOptions, @)]
    /\ op' = [name |-> "plan", before |-> fs,
              prev |-> Some([input |-> plan_input, action |-> stateful])]
    /\ result' = Ok
    /\ description' = None
    /\ UNCHANGED <<loaded, pc, buf, trace, step_failed, calls>>

Plan ==
    /\ pc = "idle"
    /\ calls = <<>>
    /\ \E init \in InitSystem, start_daemon \in BOOLEAN, ok \in BOOLEAN :
        IF ok
        THEN /\ stateful' = plan(init, start_daemon)
             /\ plan_input' = [init |-> init, start_daemon |-> start_daemon]
             /\ op' = [name |-> "plan", before |-> fs,
                       prev |-> Some([input |-> plan_input, action |-> stateful])]
             /\ result' = Ok
        ELSE /\ UNCHANGED <<stateful, plan_input>>
             /\ op' = [name |-> "plan", before |-> fs, prev |-> None]
             /\ result' = Err(error(child_plan_error))
    /\ description' = None
    /\ UNCHANGED <<fs, loaded, pc, buf, trace, step_failed, calls>>

----------------------------------------------------------------------------
(* StatefulAction<ConfigureEnterpriseEditionInitService>::try_execute *)

TryExecute ==
    /\ pc = "idle"
    /\ Len(calls) < MaxCalls
    /\ Enter("try_execute")
    /\ UNCHANGED <<fs, loaded, stateful, plan_input>>
    /\ IF already_completed(stateful)
       THEN Return(Ok)
       ELSE /\ pc' = "open"
            /\ UNCHANGED <<result, calls>>

\* execute, lines 112-125: open the destination
ExecOpen ==
    /\ pc = "open"
    /\ LET daemon_file == DARWIN_ENTERPRISE_EDITION_DAEMON_DEST IN
       \E ok \in BOOLEAN :
        /\ trace' = Append(trace, <<"open", daemon_file>>)
        /\ UNCHANGED <<loaded, plan_input, description>>
        /\ IF ok
           THEN /\ fs' = [fs EXCEPT ![daemon_file] = open(OpenOptions, @)]
                /\ pc' = "serialize"
                /\ UNCHANGED <<stateful, op, buf, step_failed, result, calls>>
           ELSE /\ fs' = fs
                /\ Fail(<<"Open", daemon_file>>)

\* ExecSerialize as it would be if the serializer's error were dropped: execute
\* goes on with whatever reached buf
ExecSerialize_ignore ==
    /\ pc = "serialize"
    /\ \E ok \in BOOLEAN :
        /\ buf' = IF ok THEN to_writer_xml(generate_plist) ELSE <<>>
        /\ step_failed' = ~ok
        /\ pc' = "write"
        /\ UNCHANGED <<fs, loaded, plan_input, description, trace, stateful, op, result, calls>>

\* execute, lines 117 and 127-128: serialize the generated descriptor into buf
ExecSerialize ==
    /\ pc = "serialize"
    /\ \E ok \in BOOLEAN :
        /\ UNCHANGED <<fs, loaded, plan_input, description, trace>>
        /\ IF ok
           THEN /\ buf' = to_writer_xml(generate_plist)
                /\ pc' = "write"
                /\ UNCHANGED <<stateful, op, step_failed, result, calls>>
           ELSE Fail(<<"Plist">>)

\* ExecWrite as it would be with a single `write` in place of `write_all`:
\* a short write is not an error, and execute goes on
ExecWrite_short ==
    /\ pc = "write"
    /\ \E n \in PartialWrites(buf) \cup {Len(buf)} :
        /\ trace' = Append(trace, <<"write", DARWIN_ENTERPRISE_EDITION_DAEMON_DEST>>)
        /\ fs' = [fs EXCEPT ![DARWIN_ENTERPRISE_EDITION_DAEMON_DEST] =
                      write_all(OpenOptions, @, buf, n)]
        /\ pc' = "delegate"
        /\ UNCHANGED <<loaded, plan_input, description, stateful, op, buf, step_failed, result, calls>>

\* execute, lines 129-131: write buf through the open handle
ExecWrite ==
    /\ pc = "write"
    /\ LET daemon_file == DARWIN_ENTERPRISE_EDITION_DAEMON_DEST IN
       \E n \in PartialWrites(buf) \cup {Len(buf)} :
        /\ trace' = Append(trace, <<"write", daemon_file>>)
        /\ fs' = [fs EXCEPT ![daemon_file] = write_all(OpenOptions, @, buf, n)]
        /\ UNCHANGED <<loaded, plan_input, description>>
        /\ IF n = Len(buf)
           THEN /\ pc' = "delegate"
                /\ UNCHANGED <<stateful, op, buf, step_failed, result, calls>>
           ELSE Fail(<<"Write", daemon_file>>)

\* ExecChild as it would be if execute called the child's execute rather than
\* its try_execute: the child's completed marker is not consulted
ExecChild_direct ==
    /\ pc = "delegate"
    /\ LET c == stateful.action.configure_init_service IN
       \E outcome \in child_outcomes(c) :
        /\ UNCHANGED <<fs, plan_input, description>>
        /\ trace' = trace \o << <<"child.execute">> >> \o child_commands(c)
        /\ IF outcome = "ok"
           THEN /\ loaded' = (IF c.action.start_daemon THEN TRUE ELSE loaded)
                /\ stateful' = set_completed(stateful)
                /\ UNCHANGED <<op, buf, step_failed>>
                /\ Return(Ok)
           ELSE /\ loaded' = loaded
                /\ Fail(child_error)

\* ExecChild as it would be if the child's result were dropped instead of
\* propagated with `?`
ExecChild_swallow ==
    /\ pc = "delegate"
    /\ LET c == stateful.action.configure_init_service IN
       \E outcome \in IF already_completed(c) THEN {"skip"} ELSE child_outcomes(c) :
        /\ UNCHANGED <<fs, plan_input, description, op, buf>>
        /\ trace' = IF outcome = "skip"
                    THEN Append(trace, <<"child.try_execute">>)
                    ELSE trace \o << <<"child.try_execute">>, <<"child.execute">> >>
                               \o child_commands(c)
        /\ loaded' = (IF outcome = "ok" /\ c.action.start_daemon THEN TRUE ELSE loaded)
        /\ step_failed' = (outcome = "failed")
        /\ stateful' = set_completed(
               IF outcome = "ok"
               THEN [stateful EXCEPT !.action.configure_init_service = set_completed(@)]
               ELSE stateful)
        /\ Return(Ok)

\* execute, lines 134-139: configure_init_service.try_execute(), then Ok(());
\* on Ok the wrapper marks the composite completed
ExecChild ==
    /\ pc = "delegate"
    /\ LET child == stateful.action.configure_init_service IN
       /\ UNCHANGED <<fs, plan_input, description>>
       /\ IF already_completed(child)
          THEN /\ trace' = Append(trace, <<"child.try_execute">>)
               /\ stateful' = set_completed(stateful)
               /\ UNCHANGED <<loaded, op, buf, step_failed>>
               /\ Return(Ok)
          ELSE \E outcome \in child_outcomes(child) :
               /\ trace' = trace \o << <<"child.try_execute">>, <<"child.execute">> >>
                                 \o child_commands(child)
               /\ IF outcome = "ok"
                  THEN /\ loaded' = (IF child.action.start_daemon THEN TRUE ELSE loaded)
                       /\ stateful' = set_completed(
                              [stateful EXCEPT !.action.configure_init_service = set_completed(@)])
                       /\ UNCHANGED <<op, buf, step_failed>>
                       /\ Return(Ok)
                  ELSE /\ loaded' = loaded
                       /\ Fail(child_error)

----------------------------------------------------------------------------
(* StatefulAction<ConfigureEnterpriseEditionInitService>::try_revert *)

TryRevert ==
    /\ pc = "idle"
    /\ Len(calls) < MaxCalls
    /\ Enter("try_revert")
    /\ UNCHANGED <<fs, loaded, stateful, plan_input>>
    /\ IF already_uncompleted(stateful)
       THEN Return(Ok)
       ELSE /\ pc' = "revert"
            /\ UNCHANGED <<result, calls>>

\* revert_command as it would be if bootout were given the descriptor's path
revert_command_path ==
    <<"launchctl", "bootout", DARWIN_ENTERPRISE_EDITION_DAEMON_DEST>>

\* the command revert runs: launchctl bootout <domain>/<name>
revert_command ==
    <<"launchctl", "bootout",
      DARWIN_LAUNCHD_DOMAIN \o "/" \o DARWIN_ENTERPRISE_EDITION_SERVICE_NAME>>

\* Revert as it would be if a failed command were run a second time
Revert_retry ==
    /\ pc = "revert"
    /\ \E first \in CommandOutcomes, outcome \in CommandOutcomes :
        /\ trace' = (IF first = "ok"
                     THEN Append(trace, revert_command)
                     ELSE trace \o <<revert_command, revert_command>>)
        /\ UNCHANGED <<fs, plan_input, description>>
        /\ IF first = "ok" \/ outcome = "ok"
           THEN /\ loaded' = FALSE
                /\ stateful' = set_uncompleted(stateful)
                /\ UNCHANGED <<op, buf, step_failed>>
                /\ Return(Ok)
           ELSE /\ loaded' = loaded
                /\ Fail(<<"Command", outcome>> \o revert_command)

\* Revert as it would be if a successful revert also cleared the start flag
Revert_reset ==
    /\ pc = "revert"
    /\ \E outcome \in CommandOutcomes :
        /\ trace' = Append(trace, revert_command)
        /\ UNCHANGED <<fs, plan_input, description>>
        /\ IF outcome = "ok"
           THEN /\ loaded' = FALSE
                /\ stateful' = [set_uncompleted(stateful)
                                   EXCEPT !.action.start_daemon = FALSE]
                /\ UNCHANGED <<op, buf, step_failed>>
                /\ Return(Ok)
           ELSE /\ loaded' = loaded
                /\ Fail(<<"Command", outcome>> \o revert_command)

\* Revert as it would be if the command's result were dropped instead of
\* propagated with `?`
Revert_ignore ==
    /\ pc = "revert"
    /\ \E outcome \in CommandOutcomes :
        /\ trace' = Append(trace, revert_command)
        /\ UNCHANGED <<fs, plan_input, description, op, buf>>
        /\ loaded' = (IF outcome = "ok" THEN FALSE ELSE loaded)
        /\ step_failed' = (outcome # "ok")
        /\ stateful' = set_uncompleted(stateful)
        /\ Return(Ok)

\* revert, lines 152-169; on Ok the wrapper marks the composite not completed
Revert ==
    /\ pc = "revert"
    /\ \E outcome \in CommandOutcomes :
        /\ trace' = Append(trace, revert_command)
        /\ UNCHANGED <<fs, plan_input, description>>
        /\ IF outcome = "ok"
           THEN /\ loaded' = FALSE
                /\ stateful' = set_uncompleted(stateful)
                /\ UNCHANGED <<op, buf, step_failed>>
                /\ Return(Ok)
           ELSE /\ loaded' = loaded
                /\ Fail(<<"Command", outcome>> \o revert_command)

----------------------------------------------------------------------------
(* Cancellation: the caller drops a call that is suspended before one of its
   awaited steps (the open, the write, the child, the command); the step and
   everything after it do not happen, and the markers stay as they are *)

Abandoned == Err(<<"abandoned">>)

Abandon ==
    /\ pc \in {"open", "write", "delegate", "revert"}
    /\ UNCHANGED <<fs, loaded, stateful, plan_input, op, buf, trace, step_failed, description>>
    /\ Return(Abandoned)

----------------------------------------------------------------------------
(* The previews *)

tracing_synopsis ==
    "Configure the Determinate Nix Enterprise Edition daemon related settings with launchctl"

\* ActionDescription::new
ActionDescription(synopsis, explanation) ==
    [description |-> synopsis, explanation |-> explanation]

\* An explanation line is kept as its words: the verb, then the words of the
\* part the source puts between backquotes.

\* execute_description as it would be if the bootstrap line were pushed without
\* looking at the start flag
execute_description_always(self) ==
    << ActionDescription(tracing_synopsis,
          << <<"Create", DARWIN_ENTERPRISE_EDITION_DAEMON_DEST>>,
             <<"Run", "launchctl", "bootstrap", DARWIN_ENTERPRISE_EDITION_DAEMON_DEST>> >>) >>

execute_description(self) ==
    LET explanation ==
            << <<"Create", DARWIN_ENTERPRISE_EDITION_DAEMON_DEST>> >>
            \o (IF self.start_daemon
                THEN << <<"Run", "launchctl", "bootstrap",
                          DARWIN_ENTERPRISE_EDITION_DAEMON_DEST>> >>
                ELSE <<>>)
    IN  << ActionDescription(tracing_synopsis, explanation) >>

revert_synopsis == "Unconfigure Nix daemon related settings with launchctl"

revert_description(self) ==
    << ActionDescription(revert_synopsis,
          << <<"Run", "launchctl", "bootout", DARWIN_ENTERPRISE_EDITION_DAEMON_DEST>> >>) >>

ExecuteDescription ==
    /\ pc = "idle"
    /\ description' = Some(execute_description(stateful.action))
    /\ UNCHANGED <<fs, loaded, stateful, plan_input, pc, op, buf, trace, step_failed,
                   result, calls>>

RevertDescription ==
    /\ pc = "idle"
    /\ description' = Some(revert_description(stateful.action))
    /\ UNCHANGED <<fs, loaded, stateful, plan_input, pc, op, buf, trace, step_failed,
                   result, calls>>

----------------------------------------------------------------------------

Next ==
    \/ Plan
    \/ TryExecute
    \/ ExecOpen
    \/ ExecSerialize
    \/ ExecWrite
    \/ ExecChild
    \/ TryRevert
    \/ Revert
    \/ ExecuteDescription
    \/ RevertDescription
    \/ Abandon

Spec == Init /\ [][Next]_vars

----------------------------------------------------------------------------
(* Vocabulary of the properties *)

daemon_file == DARWIN_ENTERPRISE_EDITION_DAEMON_DEST
child == stateful.action.configure_init_service
Descriptor == to_writer_xml(generate_plist)

\* the wrapped action was touched / the child was invoked / the child's execute ran
ran(t) == t # <<>>
child_invoked(t) == \E i \in 1..Len(t) : t[i] = <<"child.try_execute">>
child_executed(t) == \E i \in 1..Len(t) : t[i] = <<"child.execute">>
wrote(t) == \E i \in 1..Len(t) : t[i] = <<"write", daemon_file>>

\* the file holds the whole descriptor from its first token on
fully_written(file) ==
    /\ file # None
    /\ Len(file[1]) >= Len(Descriptor)
    /\ SubSeq(file[1], 1, Len(Descriptor)) = Descriptor

----------------------------------------------------------------------------
\* C1: a try_execute that follows a successful try_execute on the same stateful
\* action never enters the wrapped execute: it returns success, performs no step
\* and leaves the files as the first call left them; likewise the child's
\* execute does not run again when the child is invoked after it completed.
C1_TryExecuteIdempotent ==
    /\ \A i \in 1..(Len(calls) - 1) :
        (calls[i].op = "try_execute" /\ calls[i].ok /\ calls[i + 1].op = "try_execute")
        => /\ calls[i + 1].ok
           /\ ~ran(calls[i + 1].trace)
           /\ calls[i + 1].after = calls[i].after
    /\ (/\ pc # "idle"
        /\ op.name = "try_execute"
        /\ Len(calls) >= 1
        /\ calls[Len(calls)].op = "try_execute"
        /\ calls[Len(calls)].ok) => FALSE
    /\ \A i \in 1..Len(calls) : \A j \in (i + 1)..Len(calls) :
        (calls[i].ok /\ child_executed(calls[i].trace)) => ~child_executed(calls[j].trace)

\* two try_execute calls in succession were made, the first of which ran execute
C1_Witness ==
    /\ pc = "idle"
    /\ Len(calls) >= 2
    /\ calls[1].op = "try_execute" /\ calls[1].ok
    /\ wrote(calls[1].trace) /\ child_executed(calls[1].trace)
    /\ calls[2].op = "try_execute"

----------------------------------------------------------------------------
\* C2: the completed markers start false; the composite's marker goes false->true
\* only in a step that ends a try_execute none of whose steps failed and that
\* returns success, and true->false only in a step that ends a try_revert whose
\* command succeeded; the child's marker goes false->true only when its execute
\* ran without failure and never goes back; a try_execute with a failed step
\* returns the error and leaves the marker false.
C2_CompletedMarker ==
    /\ (~stateful.completed /\ ~child.completed)
    /\ [][
        /\ (~stateful.completed /\ stateful'.completed)
            => /\ op'.name = "try_execute" /\ pc # "idle" /\ pc' = "idle"
               /\ result'.ok /\ ~step_failed'
               /\ wrote(trace') /\ child_invoked(trace')
        /\ (stateful.completed /\ ~stateful'.completed)
            => /\ op'.name = "try_revert" /\ pc = "revert" /\ pc' = "idle"
               /\ result'.ok /\ ~step_failed'
        /\ (~child.completed /\ child'.completed)
            => /\ child_executed(trace') /\ ~step_failed'
        /\ (child.completed => child'.completed)
        /\ (op'.name = "try_execute" /\ step_failed')
            => /\ ~stateful'.completed
               /\ pc' = "idle" /\ ~result'.ok /\ result'.err # <<>>
        /\ stateful'.completed
            => \E i \in 1..Len(calls') : calls'[i].op = "try_execute" /\ calls'[i].ok
       ]_vars

\* a failed execute, then a successful one, then a successful revert
C2_Witness ==
    /\ pc = "idle"
    /\ Len(calls) = 3
    /\ calls[1].op = "try_execute" /\ ~calls[1].ok /\ ~calls[1].action.completed
    /\ calls[2].op = "try_execute" /\ calls[2].ok /\ calls[2].action.completed
    /\ calls[3].op = "try_revert" /\ calls[3].ok
    /\ ~stateful.completed

----------------------------------------------------------------------------
----------------------------------------------------------------------------
----------------------------------------------------------------------------
\* C5: a successful revert of the composite first invokes the child's try_revert
\* and then runs its own unregistration command, and leaves the child's
\* completed marker false.
C5_RevertChildFirst ==
    (pc = "idle" /\ op.name = "try_revert" /\ result.ok /\ ran(trace))
    => /\ Len(trace) >= 2
       /\ trace[1] = <<"child.try_revert">>
       /\ trace[Len(trace)] = revert_command
       /\ ~child.completed

----------------------------------------------------------------------------
\* C6: after any sequence of successful try_execute and try_revert calls, an
\* action whose completed marker is true has its descriptor written and, with
\* the start flag set, its daemon registered with launchd.
C6_ExecutedState ==
    (/\ pc = "idle"
     /\ stateful.completed
     /\ \A i \in 1..Len(calls) : calls[i].ok)
    => /\ fully_written(fs[daemon_file])
       /\ (stateful.action.start_daemon => loaded)

----------------------------------------------------------------------------
\* C7: when a try_execute that found no descriptor on disk succeeds, is then
\* reverted with success and executed again with success, the destination holds
\* after the second execute exactly what it held after the first.
C7_RoundTrip ==
    \A i \in 1..(Len(calls) - 2) :
        (/\ calls[i].op = "try_execute" /\ calls[i].ok
         /\ calls[i].before[daemon_file] = None
         /\ calls[i + 1].op = "try_revert" /\ calls[i + 1].ok
         /\ calls[i + 2].op = "try_execute" /\ calls[i + 2].ok)
        => /\ calls[i + 2].after[daemon_file] = calls[i].after[daemon_file]
           /\ calls[i + 2].after[daemon_file] # None

\* execute, revert, execute, all successful, from a host without the descriptor;
\* the second execute wrote the file again
C7_Witness ==
    /\ pc = "idle"
    /\ Len(calls) = 3
    /\ calls[1].op = "try_execute" /\ calls[1].ok
    /\ calls[1].before[daemon_file] = None
    /\ calls[2].op = "try_revert" /\ calls[2].ok
    /\ calls[3].op = "try_execute" /\ calls[3].ok
    /\ wrote(calls[3].trace)

----------------------------------------------------------------------------
\* C8: the child is planned with the init system and the start flag that plan was
\* given, and with the source, destination and name resolved for that init system.
C8_PlanHandsSelection ==
    /\ child.action.init = plan_input.init
    /\ child.action.start_daemon = plan_input.start_daemon
    /\ child.action.service_src = service_src(plan_input.init)
    /\ child.action.service_dest = service_dest(plan_input.init)
    /\ child.action.service_name = service_name(plan_input.init)

----------------------------------------------------------------------------
\* C9: what plan resolves is a fixed table of the init system alone, whatever the
\* host holds: Launchd gives no source, the launchd destination and the service
\* name; Systemd gives the staged source, the systemd destination and no name;
\* None gives nothing. A plan that follows a plan with the same arguments gives
\* the same action. A plan step changes no file, no launchd registration, runs no
\* step, and the action it builds has both completed markers false.
C9_PlanPure ==
    /\ [](op.name = "plan"
          => /\ child.action.service_src =
                  (IF plan_input.init = "Systemd"
                   THEN <<"/nix/determinate/nix-daemon.service">> ELSE <<>>)
             /\ child.action.service_dest =
                  (IF plan_input.init = "Launchd"
                   THEN <<"/Library/LaunchDaemons/systems.determinate.nix-daemon.plist">>
                   ELSE IF plan_input.init = "Systemd"
                   THEN <<"/etc/systemd/system/nix-daemon.service">> ELSE <<>>)
             /\ child.action.service_name =
                  (IF plan_input.init = "Launchd"
                   THEN <<"systems.determinate.nix-daemon">> ELSE <<>>)
             /\ stateful.action.start_daemon = plan_input.start_daemon
             /\ ~stateful.completed /\ ~child.completed
             /\ fs = op.before
             /\ ((op.prev # None /\ op.prev[1].input = plan_input)
                 => op.prev[1].action = stateful))
    /\ [][op'.name = "plan"
          => (fs' = fs /\ loaded' = loaded /\ trace' = trace /\ pc' = pc /\ calls' = calls)
         ]_vars

\* a plan call that followed a plan call with the same arguments, on a host that
\* already holds a file at the destination and a loaded service
C9_Witness ==
    /\ op.name = "plan"
    /\ op.prev # None
    /\ op.prev[1].input = plan_input
    /\ plan_input = [init |-> "Systemd", start_daemon |-> TRUE]
    /\ fs[daemon_file] # None
    /\ loaded

----------------------------------------------------------------------------
\* C10: a try_revert that ran revert issued exactly one command, launchctl bootout
\* system/systems.determinate.nix-daemon, and changed no file: the descriptor is
\* on disk with the content the call found, which is what the last execute left.
C10_RevertEffect ==
    (pc = "idle" /\ op.name = "try_revert" /\ ran(trace))
    => /\ trace = << <<"launchctl", "bootout", "system/systems.determinate.nix-daemon">> >>
       /\ fs = op.before
       /\ fully_written(fs[daemon_file])
       /\ \A i \in 1..(Len(calls) - 1) :
            (calls[i].op = "try_execute" /\ ran(calls[i].trace) /\ calls[i].ok)
            => fs = calls[i].after

\* a successful revert after an execute with the start flag set
C10_Witness ==
    /\ pc = "idle"
    /\ op.name = "try_revert"
    /\ result.ok
    /\ ran(trace)
    /\ plan_input = [init |-> "Launchd", start_daemon |-> TRUE]
    /\ Len(calls) = 2
    /\ child_executed(calls[1].trace)
    /\ fs[daemon_file] = Some(Descriptor)

----------------------------------------------------------------------------
\* C11: whatever init system and start flag the action was planned with, and
\* whatever calls came before, the bytes execute serializes are those of the
\* record with label systems.determinate.nix-daemon, program
\* /usr/local/bin/determinate-nix-ee, keep-alive true, both log paths
\* /var/log/determinate-nix-daemon.log and soft file limit 1048576; a successful
\* execute leaves them at the start of the destination.
C11_DescriptorContent ==
    LET expected ==
            << "Label", "systems.determinate.nix-daemon",
               "Program", "/usr/local/bin/determinate-nix-ee",
               "KeepAlive", "true",
               "RunAtLoad", "true",
               "StandardErrorPath", "/var/log/determinate-nix-daemon.log",
               "StandardOutPath", "/var/log/determinate-nix-daemon.log",
               "SoftResourceLimits", "NumberOfFiles", "1048576" >>
    IN  /\ buf # <<>> => buf = expected
        /\ (pc = "idle" /\ op.name = "try_execute" /\ result.ok /\ wrote(trace))
            => /\ fs[daemon_file] # None
               /\ Len(fs[daemon_file][1]) >= Len(expected)
               /\ SubSeq(fs[daemon_file][1], 1, Len(expected)) = expected

\* a second successful execute of an action planned for Systemd without the start
\* flag has serialized and written the descriptor
C11_Witness ==
    /\ pc = "idle"
    /\ plan_input = [init |-> "Systemd", start_daemon |-> FALSE]
    /\ Len(calls) = 3
    /\ wrote(calls[1].trace) /\ calls[1].ok
    /\ op.name = "try_execute" /\ result.ok /\ wrote(trace)
    /\ buf # <<>>

----------------------------------------------------------------------------
\* C12: the execute preview has one entry whose first line is the creation of the
\* launchd descriptor and which has a second line, the launchctl bootstrap of
\* that file, exactly when the action's start flag is set; the step that
\* returns a preview changes nothing else; and an execute without the start flag
\* still writes the descriptor, and runs no launchctl command.
C12_ExecutePreview ==
    /\ []((description # None /\ description[1][1].description = tracing_synopsis)
          => LET e == description[1][1].explanation IN
             /\ Len(description[1]) = 1
             /\ Len(e) = (IF stateful.action.start_daemon THEN 2 ELSE 1)
             /\ e[1] = <<"Create",
                         "/Library/LaunchDaemons/systems.determinate.nix-daemon.plist">>
             /\ stateful.action.start_daemon
                 => e[2] = <<"Run", "launchctl", "bootstrap",
                             "/Library/LaunchDaemons/systems.determinate.nix-daemon.plist">>)
    /\ []((/\ pc = "idle" /\ op.name = "try_execute" /\ result.ok /\ ran(trace)
           /\ ~stateful.action.start_daemon)
          => /\ wrote(trace)
             /\ fully_written(fs[daemon_file])
             /\ \A i \in 1..Len(trace) : trace[i][1] # "launchctl")
    /\ [][(description' # description /\ description' # None)
          => UNCHANGED <<fs, loaded, stateful, plan_input, pc, op, buf, trace,
                         step_failed, result, calls>>
         ]_vars

\* the execute preview of an action planned without the start flag, asked for
\* before anything was executed on a host without the descriptor
C12_Witness ==
    /\ description # None
    /\ description[1][1].description = tracing_synopsis
    /\ Len(description[1][1].explanation) = 1
    /\ ~stateful.action.start_daemon
    /\ calls = <<>>
    /\ fs[daemon_file] = None

----------------------------------------------------------------------------
\* C13: when the child's execute fails inside the composite's execute, the error
\* the composite's caller receives is the child's error itself.
C13_ChildErrorUnchanged ==
    (pc = "idle" /\ op.name = "try_execute" /\ step_failed /\ child_executed(trace))
    => result.err = child_error

----------------------------------------------------------------------------
\* C14: a try_revert on an action whose completed marker is false, also one left
\* by an execute that was abandoned between its steps, returns success in the
\* same step without running a command, invoking the child or changing anything;
\* on a completed action it runs revert, whose one command, when it succeeds,
\* ends the call with success and the marker false and, when it fails, ends the
\* call with the error and the marker still true.
C14_TryRevert ==
    [][ /\ (/\ pc = "idle" /\ op'.name = "try_revert"
            /\ (pc' = "revert" \/ Len(calls') > Len(calls)))
           => IF stateful.completed
              THEN pc' = "revert" /\ stateful' = stateful /\ trace' = <<>>
              ELSE /\ pc' = "idle"
                   /\ result' = Ok
                   /\ trace' = <<>>
                   /\ UNCHANGED <<fs, loaded, stateful>>
        /\ (pc = "revert" /\ ran(trace'))
           => /\ trace' = <<revert_command>>
              /\ pc' = "idle"
              /\ IF step_failed'
                 THEN ~result'.ok /\ result'.err # <<>> /\ stateful'.completed
                 ELSE result'.ok /\ ~stateful'.completed
      ]_vars

\* an execute abandoned after the descriptor was written and before the child
\* was invoked, followed by a try_revert
C14_Witness ==
    /\ pc = "idle"
    /\ Len(calls) = 2
    /\ calls[1].op = "try_execute" /\ ~calls[1].ok
    /\ wrote(calls[1].trace) /\ ~child_invoked(calls[1].trace)
    /\ fully_written(calls[1].after[daemon_file])
    /\ calls[2].op = "try_revert" /\ calls[2].ok /\ ~ran(calls[2].trace)
    /\ ~stateful.completed

----------------------------------------------------------------------------
\* C15: after a try_execute that wrote the descriptor and returned success, the
\* destination file holds exactly the serialized descriptor, whatever the path
\* held before (nothing, shorter content or longer content).
C15_CreateOrTruncate ==
    (pc = "idle" /\ op.name = "try_execute" /\ result.ok /\ wrote(trace))
    => fs[daemon_file] = Some(Descriptor)

----------------------------------------------------------------------------
\* C16: every path a try_execute opens or writes, and every file it changes, is
\* the destination path plan resolved for the init system and gave to the child.
C16_WritesPlannedDest ==
    op.name = "try_execute"
    => /\ \A i \in 1..Len(trace) :
            trace[i][1] \in {"open", "write"}
            => Some(trace[i][2]) = child.action.service_dest
       /\ \A p \in Paths :
            fs[p] # op.before[p] => Some(p) = child.action.service_dest

----------------------------------------------------------------------------
\* C17: a revert runs the unregistration command exactly once and ends the call
\* in that step; it returns success exactly when the command was spawned and
\* exited zero and an error otherwise, and both outcomes are possible whatever
\* the start flag and whether the daemon is loaded.
C17_RevertOutcome ==
    /\ [](pc = "revert"
          => /\ ENABLED (Revert /\ result'.ok)
             /\ ENABLED (Revert /\ ~result'.ok))
    /\ [][ (pc = "revert" /\ ran(trace'))
           => /\ trace' = <<revert_command>>
              /\ pc' = "idle"
              /\ result'.ok = ~step_failed'
              /\ result'.ok => (~loaded' /\ result' = Ok)
              /\ ~result'.ok
                 => /\ loaded' = loaded
                    /\ result'.err \in
                         {error(<<"Command", o>> \o revert_command) :
                              o \in {"spawn", "nonzero"}}
         ]_vars

\* a revert that succeeded on an action planned without the start flag, on a
\* host where the daemon was not loaded
C17_Witness ==
    /\ pc = "idle"
    /\ op.name = "try_revert"
    /\ trace = <<revert_command>>
    /\ result.ok
    /\ ~stateful.action.start_daemon
    /\ Len(calls) = 2
    /\ calls[1].op = "try_execute" /\ calls[1].ok

----------------------------------------------------------------------------
\* C18: whenever no call is running and the composite's completed marker is
\* false, none of its execute side effects are present: the files are as they
\* were before the first call and the child is not marked completed.
C18_MarkerIdentifiesEffects ==
    (pc = "idle" /\ ~stateful.completed /\ calls # <<>>)
    => /\ fs = calls[1].before
       /\ ~child.completed

----------------------------------------------------------------------------
\* C19: the revert preview names the command revert issues, with the target
\* revert addresses it to, and lists an undo for the descriptor execute created.
C19_RevertPreviewMatches ==
    (description # None /\ description[1][1].description = revert_synopsis)
    => LET explanation == description[1][1].explanation
       IN  /\ \E i \in 1..Len(explanation) :
                /\ explanation[i][1] = "Run"
                /\ Tail(explanation[i]) = revert_command
           /\ \E i \in 1..Len(explanation) :
                /\ explanation[i][1] = "Remove"
                /\ explanation[i][2] = daemon_file

----------------------------------------------------------------------------
\* C20: no step of try_execute, execute, try_revert, revert, or of the two
\* previews changes the action's start flag or the child's init system, flag,
\* paths and registration name; a preview changes nothing but the description
\* it returns.
C20_ParametersFrozen ==
    [][ /\ (pc # "idle" \/ pc' # "idle" \/ calls' # calls \/ description' # None)
           => /\ stateful'.action.start_daemon = stateful.action.start_daemon
              /\ child'.action = child.action
              /\ plan_input' = plan_input
        /\ (description' # description /\ description' # None)
           => UNCHANGED <<fs, loaded, stateful, plan_input, pc, result, calls>>
      ]_vars

\* an action planned with the start flag that was executed, reverted and then
\* previewed still has the parameters plan gave it
C20_Witness ==
    /\ pc = "idle"
    /\ Len(calls) = 2
    /\ calls[1].op = "try_execute" /\ calls[1].ok
    /\ calls[2].op = "try_revert" /\ calls[2].ok /\ ran(calls[2].trace)
    /\ description # None
    /\ plan_input.start_daemon
    /\ stateful.action.start_daemon = plan_input.start_daemon
    /\ child.action =
         plan(plan_input.init, plan_input.start_daemon).action.configure_init_service.action

====
